---- MODULE Spec2Model ----
(***************************************************************************)
(* PtAnnotator3DWidget (src/src/ptannotator3d/_ptannotator3d.py) as a      *)
(* state machine: the widget's attributes, the two CSV files it writes,    *)
(* the napari layer list, the UI thread's handlers and the thread_worker   *)
(* tasks (_prepare_next_batch, save_and_update) that run beside them.  A   *)
(* handler is one transition, and a worker takes its steps between        *)
(* handlers; a step of the sampler on a worker thread is two transitions,  *)
(* so that handlers and other workers can run while it lasts.              *)
(*                                                                         *)
(* Conventions.                                                            *)
(*  - Python's None is the empty tuple <<>>; a value v that may be None is  *)
(*    kept as <<v>>.                                                       *)
(*  - Text (file names, CSV cells) is a tuple of one-character strings, so  *)
(*    slicing, formatting and parsing are computed, not assumed.           *)
(*  - Point coordinates are floats; the model keeps them in half units     *)
(*    (the integer h stands for h/2), which is enough to tell np.round's   *)
(*    cases apart.  Offsets, extents and chunk shapes are whole numbers.   *)
(*  - Variables named h_... are history variables: they record what        *)
(*    happened; the program's actions read them only where a guard bounds  *)
(*    the run.                                                             *)
(*  - The text in a file dialog is not kept: a handler gets the name the   *)
(*    user selected as its input.                                          *)
(*  - save_chunk, the contrast slider, the projection spinners and the     *)
(*    visibility toggle change nothing the model keeps and are left out.   *)
(***************************************************************************)
EXTENDS Integers, Sequences, FiniteSets, TLC

VARIABLES
    data,           \* self.data: None or <<name of the opened file>>
    shape,          \* self.shape: None or <<the array's shape>>
    no_channels,    \* self.no_channels
    csvfile,        \* self.csvfile.value
    csv_points,     \* self.csv_points: None or <<list of points>>
    channel,        \* self.channel (SpinBox): [value, max]
    channel_coloc,  \* self.channel_coloc (SpinBox): [value, max]
    chunk_spins,    \* self.chunk_spins: three SpinBoxes [value, max]
    g,              \* self.g: the generator object [channel, channel_coloc, alive]
    offset,         \* self.offset
    points,         \* self.points
    _chunk_shape,   \* self._chunk_shape: None or <<tuple>>
    tmp,            \* self.tmp: None or <<[chunk, chunk_coloc, points]>>
    backup,         \* self.backup: unset or <<[points_layer_data, offset, settings]>>
    img_layer,      \* self.img_layer: None or <<chunk>>
    co_layer,       \* self.co_layer: None or <<chunk>>
    csv_layer,      \* self.csv_layer: None or <<points shown>>
    points_layer,   \* self.points_layer: None or <<points drawn>>
    viewer_layers,  \* napari_viewer.layers: names of the layers in the viewer
    pointsFile,     \* the point CSV on disk: absent (<<>>) or <<its text>>
    bboxFile,       \* the bounding-box CSV on disk: absent (<<>>) or <<its lines>>
    prefetch,       \* _prepare_next_batch workers, in the order they were started
    saves,          \* save_and_update workers, in the order they were started
    h_event,        \* the last transition: [kind, file], kind "confirm",
                    \* "warning" (a confirm that only warned), "load_data"
                    \* (with the file selected) or "other"
    h_raised,       \* the exception the last transition ended with, or ""
    h_lastStep,     \* the sampler step the last transition began, if any
    h_confirm,      \* what the last transition's confirm chose, if any
    h_lastSave,     \* the points the last transition appended, if any
    h_lastBbox,     \* the bounding box the last transition recorded, if any
    h_tmpCfg,       \* the configuration the chunk in self.tmp was sampled with
    h_backupShown,  \* the chunk on display when self.backup was taken
    h_loaded,       \* the point list as _load_csv returned it
    h_added,        \* new points handed to save_and_update, in confirm order
    h_bbox0,        \* the bounding-box file as load_csv left it
    h_saveCalls,    \* number of save_and_update calls
    h_drawn,        \* number of points drawn so far
    h_loads,        \* number of files selected as the dataset so far
    h_edits,        \* number of spinner edits so far
    h_confirms      \* number of confirms that got past their checks

vars == <<data, shape, no_channels, csvfile, csv_points, channel,
          channel_coloc, chunk_spins, g, offset, points, _chunk_shape, tmp,
          backup, img_layer, co_layer, csv_layer, points_layer, viewer_layers,
          pointsFile, bboxFile, prefetch, saves,
          h_event, h_raised, h_lastStep, h_confirm, h_lastSave, h_lastBbox,
          h_tmpCfg, h_backupShown, h_loaded, h_added, h_bbox0, h_saveCalls,
          h_drawn, h_loads, h_edits, h_confirms>>

\* The widget's attributes, what it shows, the files and the workers.
widgetVars == <<data, shape, no_channels, csvfile, csv_points, channel,
                channel_coloc, chunk_spins, g, offset, points, _chunk_shape, tmp,
                backup, img_layer, co_layer, csv_layer, points_layer,
                viewer_layers, pointsFile, bboxFile, prefetch, saves>>

\* The history variables that last beyond one transition.
historyVars == <<h_tmpCfg, h_backupShown, h_loaded, h_added, h_bbox0, h_saveCalls,
                 h_drawn, h_loads, h_edits, h_confirms>>

-----------------------------------------------------------------------------
(* Bounds of the model. *)

MaxSaveCalls == 2   \* confirms that may call save_and_update
MaxDrawn == 1       \* points the user draws in all
MaxPrefetch == 2    \* _prepare_next_batch workers alive at once
MaxLoads == 1       \* files selected as the dataset
MaxEdits == 2       \* spinner edits
MaxConfirms == 3    \* confirms that get past their checks

-----------------------------------------------------------------------------
(* None, text and numbers. *)

None == <<>>

Some(v) == <<v>>

Val(o) == o[1]

Min(a, b) == IF a < b THEN a ELSE b

DigitChars == <<"0", "1", "2", "3", "4", "5", "6", "7", "8", "9">>

IsDigit(c) == \E i \in 1..10 : DigitChars[i] = c

DigitVal(c) == (CHOOSE i \in 1..10 : DigitChars[i] = c) - 1

\* str(n) of a non-negative int.
RECURSIVE Str(_)
Str(n) == IF n < 10 THEN <<DigitChars[n + 1]>>
          ELSE Str(n \div 10) \o <<DigitChars[(n % 10) + 1]>>

\* int(t) succeeds on a non-empty run of digits.
IsIntText(t) == Len(t) > 0 /\ \A i \in 1..Len(t) : IsDigit(t[i])

RECURSIVE IntOf(_)
IntOf(t) == IF Len(t) = 1 THEN DigitVal(t[1])
            ELSE 10 * IntOf(SubSeq(t, 1, Len(t) - 1)) + DigitVal(t[Len(t)])

\* str(x) of a float x >= 0 held in half units: "1.0", "1.5", ...
FloatStr(h) == Str(h \div 2) \o <<".", IF h % 2 = 0 THEN "0" ELSE "5">>

DotPos(t) == IF \E i \in 1..Len(t) : t[i] = "."
             THEN CHOOSE i \in 1..Len(t) : t[i] = "." /\ \A j \in 1..(i - 1) : t[j] # "."
             ELSE 0

\* float(t), in half units.
FloatOf(t) == LET p == DotPos(t)
              IN IF p = 0 THEN 2 * IntOf(t)
                 ELSE 2 * IntOf(SubSeq(t, 1, p - 1))
                      + (IF SubSeq(t, p + 1, Len(t)) = <<"5">> THEN 1 ELSE 0)

\* np.round(x) of a float x >= 0 in half units: halves go to the even integer.
NpRound(h) == IF h % 2 = 0 THEN h
              ELSE LET k == (h - 1) \div 2
                   IN IF k % 2 = 0 THEN 2 * k ELSE 2 * (k + 1)

\* s[-4:] of a text.
Last4(s) == IF Len(s) <= 4 THEN s ELSE SubSeq(s, Len(s) - 3, Len(s))

Range(s) == {s[i] : i \in 1..Len(s)}

RECURSIVE Product(_)
Product(s) == IF Len(s) = 0 THEN 1 ELSE s[1] * Product(Tail(s))

-----------------------------------------------------------------------------
(* Program constants. *)

VALID_IMAGE_FORMATS == <<  <<".", "t", "i", "f">>, <<".", "t", "i", "f", "f">>  >>

BOX_PATHS == << <<0,0,0>>, <<1,0,0>>, <<1,1,0>>, <<0,1,0>>, <<0,0,0>>, <<0,0,1>>,
                <<1,0,1>>, <<1,1,1>>, <<0,1,1>>, <<0,0,1>>, <<0,0,0>>, <<1,0,0>>,
                <<1,0,1>>, <<1,1,1>>, <<1,1,0>>, <<0,1,0>>, <<0,1,1>> >>

PointsHeader == << <<"i","n","d","e","x">>, <<"a","x","i","s","-","0">>,
                   <<"a","x","i","s","-","1">>, <<"a","x","i","s","-","2">> >>

BboxHeader == << <<"i","n","d","e","x">>,
                 <<"s","h","a","p","e","-","t","y","p","e">>,
                 <<"v","e","r","t","e","x","-","i","n","d","e","x">>,
                 <<"a","x","i","s","-","0">>, <<"a","x","i","s","-","1">>,
                 <<"a","x","i","s","-","2">> >>

PathText == <<"p","a","t","h">>

CsvExt == <<".", "c", "s", "v">>

-----------------------------------------------------------------------------
(* The files the user can select, and what is on disk at start. *)

Vol4D == <<"a", ".", "t", "i", "f">>         \* two channels, 3 x 2 x 3 voxels

Vol3D == <<"b", ".", "t", "i", "f">>         \* no channel axis, 3 x 2 x 3 voxels

VolTiff == <<"c", ".", "t", "i", "f", "f">>  \* a TIFF named .tiff

VolPng == <<"d", ".", "p", "n", "g">>        \* not an image the widget reads

DataFiles == {Vol4D, Vol3D, VolTiff, VolPng}

\* The values the user gives the three chunk-shape spinners.
ShapeChoices == {<<1, 2, 1>>, <<1, 1, 2>>}

\* The shape imread(..., aszarr=True) finds in the file.
FileShape(name) == IF name = Vol3D THEN <<3, 2, 3>> ELSE <<2, 3, 2, 3>>

PointsCsv == <<"p", ".", "c", "s", "v">>

\* The point the user can draw, in the displayed chunk's coordinates:
\* (0.5, 0.5, 1).
DrawChoices == {<<1, 1, 2>>}

-----------------------------------------------------------------------------
(* CSV text: what csv.writer writes and what csv.reader and readlines read. *)

RECURSIVE Join(_, _)
Join(cells, sep) == IF Len(cells) = 0 THEN <<>>
                    ELSE IF Len(cells) = 1 THEN cells[1]
                    ELSE cells[1] \o <<sep>> \o Join(Tail(cells), sep)

FirstPos(t, c) == CHOOSE i \in 1..Len(t) : t[i] = c /\ \A j \in 1..(i - 1) : t[j] # c

RECURSIVE Split(_, _)
Split(t, c) == IF c \notin Range(t) THEN <<t>>
               ELSE LET p == FirstPos(t, c)
                    IN <<SubSeq(t, 1, p - 1)>> \o Split(SubSeq(t, p + 1, Len(t)), c)

\* csv.writer(fp, lineterminator=term).writerows(rows)
WriteRows(rows, term) ==
    LET RECURSIVE W(_)
        W(rs) == IF Len(rs) = 0 THEN <<>>
                 ELSE Join(rs[1], ",") \o <<term>> \o W(Tail(rs))
    IN W(rows)

\* open(filename, "r"): text mode reads "\r" as "\n".
UniversalNewlines(text) == [i \in 1..Len(text) |-> IF text[i] = "\r" THEN "\n" ELSE text[i]]

\* The lines of a text; a final line terminator starts no further line.
TextLines(text) ==
    LET parts == Split(text, "\n")
    IN IF Len(text) = 0 THEN <<>>
       ELSE IF Len(parts[Len(parts)]) = 0 THEN SubSeq(parts, 1, Len(parts) - 1)
       ELSE parts

\* [line for line in csv.reader(csvfile)]
CsvRows(text) == LET ls == TextLines(UniversalNewlines(text))
                 IN [i \in 1..Len(ls) |-> IF Len(ls[i]) = 0 THEN <<>> ELSE Split(ls[i], ",")]

\* _load_csv's result on a file holding `text`: header dropped, index
\* column dropped, the rest read as floats.
ParsePoints(text) ==
    LET rows == Tail(CsvRows(text))
    IN [i \in 1..Len(rows) |-> [k \in 1..(Len(rows[i]) - 1) |-> FloatOf(rows[i][k + 1])]]

\* The rows save_and_update writes for a point list.
PointRows(pts) ==
    <<PointsHeader>>
    \o [i \in 1..Len(pts) |->
           <<Str(i - 1), FloatStr(pts[i][1]), FloatStr(pts[i][2]), FloatStr(pts[i][3])>>]

\* The point file a session may find: one point, (0.5, 0.5, 1.5).
OldPointsText ==
    Join(PointsHeader, ",") \o <<"\r">>
    \o Str(0) \o <<",">> \o FloatStr(1) \o <<",">> \o FloatStr(1) \o <<",">> \o FloatStr(3)
    \o <<"\r">>

\* The bounding-box file a session may find: its last line has index 4.
OldBboxLines ==
    <<Join(BboxHeader, ","), Join(<<Str(4), PathText, Str(16), Str(0), Str(1), Str(1)>>, ",")>>

-----------------------------------------------------------------------------
(* Properties of the widget. *)

\* [spin.value for spin in self.chunk_spins]
SpinValues == <<chunk_spins[1].value, chunk_spins[2].value, chunk_spins[3].value>>

\* self.chunk_shape read with self._chunk_shape = cache; the read leaves
\* self._chunk_shape = Some(chunk_shape(cache)).
chunk_shape(cache) == IF cache = None THEN SpinValues ELSE Val(cache)

\* self.settings: the two SpinBox widgets themselves (not their values) and
\* the chunk shape.  A widget compares equal to itself.
settings(cache) == <<"self.channel", "self.channel_coloc", chunk_shape(cache)>>

\* The names of the layers confirm adds to the viewer.
ImageLayerNames == {"Chunk", "Chunk (+1)", "Chunk (-1)"}

WidgetLayerNames == ImageLayerNames \cup {"Chunk (coloc)", "From CSV", "New Points"}

-----------------------------------------------------------------------------
(* The chunk sampler: one step of generator().  On a worker thread the     *)
(* step is PrefetchBegin, lines 291-305 (the offset and the point subset), *)
(* then PrefetchEnd, lines 306-318 (the slices, which read the file, and   *)
(* the yield).                                                             *)

\* xm, ym, zm = self.shape if self.no_channels else self.shape[1:4]
GenDims == IF no_channels THEN Val(shape) ELSE SubSeq(Val(shape), 2, Min(4, Len(Val(shape))))

\* dx, dz, dy = self.chunk_shape
GenExtent(cs) == [dx |-> cs[1], dz |-> cs[2], dy |-> cs[3]]

\* np.random.randint(n): n <= 0 raises ValueError.
RandInt(n) == 0..(n - 1)

\* Whether lines 291-297 run without raising.
GenCanSample(cs) ==
    /\ Len(GenDims) = 3
    /\ GenDims[1] - GenExtent(cs).dx > 0
    /\ GenDims[2] - GenExtent(cs).dy > 0
    /\ GenDims[3] - GenExtent(cs).dz > 0

\* The offsets lines 293-297 can draw.
GenOffsets(cs) ==
    {<<x, y, z>> : x \in RandInt(GenDims[1] - GenExtent(cs).dx),
                   y \in RandInt(GenDims[2] - GenExtent(cs).dy),
                   z \in RandInt(GenDims[3] - GenExtent(cs).dz)}

\* x < px < x + dx and y < py < y + dy and z < pz < z + dz
InChunk(p, off, cs) ==
    /\ 2 * off[1] < p[1] /\ p[1] < 2 * (off[1] + GenExtent(cs).dx)
    /\ 2 * off[2] < p[2] /\ p[2] < 2 * (off[2] + GenExtent(cs).dy)
    /\ 2 * off[3] < p[3] /\ p[3] < 2 * (off[3] + GenExtent(cs).dz)

\* self.points of lines 299-305
GenPoints(off, cs) ==
    LET Keep(p) == InChunk(p, off, cs)
    IN SelectSeq(Val(csv_points), Keep)

\* What a step keeps in its local variables x, y, z and dx, dy, dz; h_cs
\* is the chunk shape it read.
GenLocals(off, cs) ==
    [lo |-> off, ext |-> <<GenExtent(cs).dx, GenExtent(cs).dy, GenExtent(cs).dz>>,
     h_cs |-> cs]

NoLocals == [lo |-> <<0, 0, 0>>, ext |-> <<0, 0, 0>>, h_cs |-> <<0, 0, 0>>]

\* np.array(self.data[index, x:x+dx, y:y+dy, z:z+dz]) (index None: no
\* channel index): the file, the index, where the slice starts and the
\* extent numpy returns, which stops at the array's edge.
Slice(index, loc) ==
    LET full == FileShape(Val(data))
        dims == IF index = None THEN full ELSE Tail(full)
        Clip(i) == Min(loc.lo[i] + loc.ext[i], dims[i]) - Min(loc.lo[i], dims[i])
    IN [file |-> Val(data), index |-> index, lo |-> loc.lo,
        ext |-> <<Clip(1), Clip(2), Clip(3)>>, h_cs |-> loc.h_cs]

\* The triple a step yields: chunk, chunk_coloc, self.points.
GenYield(gen, loc, pts) ==
    IF no_channels
    THEN [chunk |-> Some(Slice(None, loc)), chunk_coloc |-> None, points |-> pts]
    ELSE [chunk |-> Some(Slice(Some(gen.channel), loc)),
          chunk_coloc |-> IF gen.channel # gen.channel_coloc
                          THEN Some(Slice(Some(gen.channel_coloc), loc))
                          ELSE None,
          points |-> pts]

\* self.generator(self.channel.value, self.channel_coloc.value)
generator(c, cc) == [channel |-> c, channel_coloc |-> cc, alive |-> TRUE]

\* A step of self.g is under way on a worker thread: next(self.g) raises
\* "generator already executing".
GenExecuting == \E i \in 1..Len(prefetch) : prefetch[i].pc = "gen" /\ prefetch[i].own

-----------------------------------------------------------------------------
(* Initial state: the widget as __init__ leaves it (lines 53-176), and the  *)
(* disk with or without the two files of an earlier session.                *)

SpinBox(v, m) == [value |-> v, max |-> m]

\* spin.max = m: Qt keeps the value inside the new range.
SetMax(spin, m) == [value |-> Min(spin.value, m), max |-> m]

NoCfg == <<0, 0, <<0, 0, 0>> >>

NoStep == [taken |-> FALSE, ok |-> FALSE, cs |-> <<0, 0, 0>>, dims |-> <<>>,
           off |-> <<0, 0, 0>>, all |-> <<>>, subset |-> <<>>]

NoConfirm == [taken |-> FALSE, tmpAvail |-> FALSE, usedTmp |-> FALSE,
              cfg |-> NoCfg, tmpCfg |-> NoCfg, shown |-> None]

NoSave == [taken |-> FALSE, pts |-> <<>>]

NoBbox == [taken |-> FALSE, written |-> FALSE, vertices |-> <<>>, shown |-> None]

\* What the transition did, for the history variables that describe one
\* transition.
Did(kind, raised, step, conf, save, bbox) ==
    /\ h_event' = [kind |-> kind, file |-> <<>>]
    /\ h_raised' = raised
    /\ h_lastStep' = step
    /\ h_confirm' = conf
    /\ h_lastSave' = save
    /\ h_lastBbox' = bbox

DidOther == Did("other", "", NoStep, NoConfirm, NoSave, NoBbox)

Init ==
    /\ data = None /\ shape = None /\ no_channels = FALSE
    /\ csvfile = <<>> /\ csv_points = None
    /\ channel = SpinBox(0, 0) /\ channel_coloc = SpinBox(0, 0)
    /\ chunk_spins = <<SpinBox(0, 0), SpinBox(0, 0), SpinBox(0, 0)>>
    /\ g = generator(0, 0)
    /\ offset = <<0, 0, 0>> /\ points = <<>>
    /\ _chunk_shape = None /\ tmp = None /\ backup = None
    /\ img_layer = None /\ co_layer = None /\ csv_layer = None /\ points_layer = None
    /\ viewer_layers = {}
    /\ \/ pointsFile = None /\ bboxFile = None
       \/ pointsFile = Some(OldPointsText) /\ bboxFile = Some(OldBboxLines)
    /\ prefetch = <<>> /\ saves = <<>>
    /\ h_event = [kind |-> "other", file |-> <<>>] /\ h_raised = ""
    /\ h_lastStep = NoStep /\ h_confirm = NoConfirm
    /\ h_lastSave = NoSave /\ h_lastBbox = NoBbox
    /\ h_tmpCfg = NoCfg
    /\ h_backupShown = None
    /\ h_loaded = <<>> /\ h_added = <<>> /\ h_bbox0 = <<>>
    /\ h_saveCalls = 0 /\ h_drawn = 0 /\ h_loads = 0 /\ h_edits = 0 /\ h_confirms = 0

-----------------------------------------------------------------------------
(* File selection. *)

\* A worker that is inside a generator object no longer bound to self.g.
Orphaned(ws) == [i \in 1..Len(ws) |-> [ws[i] EXCEPT !.own = FALSE]]

\* Lines 210-211: the extension test of load_data.
IsValidImage(name) == Last4(name) \in Range(VALID_IMAGE_FORMATS)

\* load_data, run by self.datafile.changed.
load_data(name) ==
    /\ h_loads < MaxLoads
    /\ h_loads' = h_loads + 1
    /\ h_event' = [kind |-> "load_data", file |-> name]
    /\ h_raised' = "" /\ h_lastStep' = NoStep /\ h_confirm' = NoConfirm
    /\ h_lastSave' = NoSave /\ h_lastBbox' = NoBbox
    /\ IF ~IsValidImage(name)
       THEN UNCHANGED <<data, shape, no_channels, channel, channel_coloc, chunk_spins,
                        g, prefetch>>
       ELSE LET sh == FileShape(name)
                ch == IF Len(sh) = 3 THEN channel ELSE SetMax(channel, sh[1] - 1)
                cc == IF Len(sh) = 3 THEN channel_coloc ELSE SetMax(channel_coloc, sh[1] - 1)
                first == IF Len(sh) = 3 THEN 0 ELSE 1
                moved == ch.value # channel.value \/ cc.value # channel_coloc.value
            IN /\ data' = Some(name)
               /\ shape' = Some(sh)
               /\ no_channels' = IF Len(sh) = 3 THEN TRUE ELSE no_channels
               /\ channel' = ch
               /\ channel_coloc' = cc
               /\ chunk_spins' = [e \in 1..3 |-> SetMax(chunk_spins[e], sh[first + e])]
               \* a value Qt had to move fires changed, which rebuilds self.g
               /\ g' = IF moved THEN generator(ch.value, cc.value) ELSE g
               /\ prefetch' = IF moved THEN Orphaned(prefetch) ELSE prefetch
    /\ UNCHANGED <<csvfile, csv_points, offset, points, _chunk_shape, tmp, backup,
                   img_layer, co_layer, csv_layer, points_layer, viewer_layers,
                   pointsFile, bboxFile, saves,
                   h_tmpCfg, h_backupShown, h_loaded, h_added, h_bbox0, h_saveCalls,
                   h_drawn, h_edits, h_confirms>>

\* _load_csv: the file is created with its header when absent, then read.
_load_csv(file) == ParsePoints(IF file = None THEN Join(PointsHeader, ",") ELSE Val(file))

\* load_csv, run by self.csvfile.changed.
load_csv(name) ==
    /\ name # csvfile
    /\ csvfile' = name
    /\ DidOther
    /\ IF Last4(name) = CsvExt
       THEN /\ csv_points' = Some(_load_csv(pointsFile))
            /\ pointsFile' = IF pointsFile = None THEN Some(Join(PointsHeader, ","))
                             ELSE pointsFile
            /\ bboxFile' = IF bboxFile = None THEN Some(<<Join(BboxHeader, ",")>>)
                           ELSE bboxFile
            /\ h_loaded' = _load_csv(pointsFile)
            /\ h_bbox0' = Val(bboxFile')
       ELSE UNCHANGED <<csv_points, pointsFile, bboxFile, h_loaded, h_bbox0>>
    /\ UNCHANGED <<data, shape, no_channels, channel, channel_coloc,
                   chunk_spins, g, offset, points, _chunk_shape, tmp, backup,
                   img_layer, co_layer, csv_layer, points_layer, viewer_layers,
                   prefetch, saves,
                   h_tmpCfg, h_backupShown, h_added, h_saveCalls, h_drawn,
                   h_loads, h_edits, h_confirms>>

-----------------------------------------------------------------------------
(* Spinners and drawing. *)

\* self.channel.changed (line 80): the sampler is rebuilt.
SetChannel(v) ==
    /\ h_edits < MaxEdits
    /\ h_edits' = h_edits + 1
    /\ v # channel.value
    /\ channel' = [channel EXCEPT !.value = v]
    /\ g' = generator(v, channel_coloc.value)
    /\ prefetch' = Orphaned(prefetch)
    /\ DidOther
    /\ UNCHANGED <<data, shape, no_channels, csvfile, csv_points,
                   channel_coloc, chunk_spins, offset, points, _chunk_shape, tmp,
                   backup, img_layer, co_layer, csv_layer, points_layer,
                   viewer_layers, pointsFile, bboxFile, saves, h_tmpCfg, h_backupShown,
                   h_loaded, h_added, h_bbox0, h_saveCalls, h_drawn, h_loads,
                   h_confirms>>

\* self.channel_coloc.changed (line 92): the sampler is rebuilt.
SetChannelColoc(v) ==
    /\ h_edits < MaxEdits
    /\ h_edits' = h_edits + 1
    /\ v # channel_coloc.value
    /\ channel_coloc' = [channel_coloc EXCEPT !.value = v]
    /\ g' = generator(channel.value, v)
    /\ prefetch' = Orphaned(prefetch)
    /\ DidOther
    /\ UNCHANGED <<data, shape, no_channels, csvfile, csv_points,
                   channel, chunk_spins, offset, points, _chunk_shape, tmp,
                   backup, img_layer, co_layer, csv_layer, points_layer,
                   viewer_layers, pointsFile, bboxFile, saves, h_tmpCfg, h_backupShown,
                   h_loaded, h_added, h_bbox0, h_saveCalls, h_drawn, h_loads,
                   h_confirms>>

\* The chunk-shape spinners are edited; no handler is connected to them
\* (lines 118-126), so the three edits are one transition.
SetChunkShape(s) ==
    /\ h_edits < MaxEdits
    /\ h_edits' = h_edits + 1
    /\ s # SpinValues
    /\ \A e \in 1..3 : s[e] <= chunk_spins[e].max
    /\ chunk_spins' = [e \in 1..3 |-> [chunk_spins[e] EXCEPT !.value = s[e]]]
    /\ DidOther
    /\ UNCHANGED <<data, shape, no_channels, csvfile, csv_points,
                   channel, channel_coloc, g, offset, points, _chunk_shape, tmp,
                   backup, img_layer, co_layer, csv_layer, points_layer,
                   viewer_layers, pointsFile, bboxFile, prefetch, saves,
                   h_tmpCfg, h_backupShown, h_loaded, h_added, h_bbox0,
                   h_saveCalls, h_drawn, h_loads, h_confirms>>

\* The user draws a point in the "New Points" layer (lines 375-377).
AddPoint(p) ==
    /\ "New Points" \in viewer_layers
    /\ h_drawn < MaxDrawn
    /\ points_layer' = Some(Append(Val(points_layer), p))
    /\ h_drawn' = h_drawn + 1
    /\ DidOther
    /\ UNCHANGED <<data, shape, no_channels, csvfile, csv_points,
                   channel, channel_coloc, chunk_spins, g, offset, points,
                   _chunk_shape, tmp, backup, img_layer, co_layer, csv_layer,
                   viewer_layers, pointsFile, bboxFile, prefetch, saves,
                   h_tmpCfg, h_backupShown, h_loaded, h_added, h_bbox0, h_saveCalls,
                   h_loads, h_edits, h_confirms>>

-----------------------------------------------------------------------------
(* Uncaught exceptions. *)

AlreadyExecuting == "ValueError: generator already executing"

StopIteration == "StopIteration"

RandIntError == "ValueError: randint or unpack"

NoneShape == "TypeError: BOX_PATHS * None"

\* next(self.g) raises before the step begins.
NextRefused == GenExecuting \/ ~g.alive

NextRefusal == IF GenExecuting THEN AlreadyExecuting ELSE StopIteration

-----------------------------------------------------------------------------
(* confirm. *)

\* confirm without the check of lines 341-343.
ConfirmReady_NoShapeCheck == data # None /\ csv_points # None

\* Lines 336-343: what confirm requires before it does anything.
ConfirmReady == data # None /\ csv_points # None /\ Product(SpinValues) # 0

\* [np.round(x) + ox, np.round(y) + oy, np.round(z) + oz] for the points of
\* a backup (lines 385-389).
Translate(b) ==
    [i \in 1..Len(b.points_layer_data) |->
        <<NpRound(b.points_layer_data[i][1]) + 2 * b.offset[1],
          NpRound(b.points_layer_data[i][2]) + 2 * b.offset[2],
          NpRound(b.points_layer_data[i][3]) + 2 * b.offset[3]>>]

\* _prepare_backup, called with self._chunk_shape = cache.
_prepare_backup(cache) ==
    IF points_layer # None
    THEN Some([points_layer_data |-> Val(points_layer), offset |-> offset,
               settings |-> settings(cache)])
    ELSE backup

\* The configuration the user has set.
Config == <<channel.value, channel_coloc.value, SpinValues>>

\* _prepare_next_batch() called: the worker has yet to call next(self.g).
StartWorker == [pc |-> "start", own |-> FALSE, gen |-> g, loc |-> NoLocals,
                h_cfg |-> NoCfg]

\* Line 357: whether confirm takes the chunk in self.tmp, given the backup
\* just taken; self._chunk_shape is None since line 356.
UsePrefetched(b) == tmp # None /\ b # None /\ settings(None) = Val(b).settings

\* Lines 361-379: the chunk y = [chunk, chunk_coloc, points] is put on
\* display and the next one is requested in the background.
Display(y, co_before, layers_before) ==
    /\ tmp' = None
    /\ img_layer' = y.chunk
    /\ co_layer' = IF y.chunk_coloc # None THEN y.chunk_coloc ELSE co_before
    /\ csv_layer' = Some(y.points)
    /\ points_layer' = Some(<<>>)
    /\ viewer_layers' = layers_before \cup ImageLayerNames \cup {"From CSV", "New Points"}
                        \cup (IF y.chunk_coloc # None THEN {"Chunk (coloc)"} ELSE {})
    /\ prefetch' = Append(prefetch, StartWorker)

\* What a step of the sampler read and drew.
StepRecord(cs, ok, off) ==
    [taken |-> TRUE, ok |-> ok, cs |-> cs, dims |-> GenDims, off |-> off,
     all |-> Val(csv_points), subset |-> IF ok THEN GenPoints(off, cs) ELSE <<>>]

\* One step of the sampler begins (lines 291-305) with
\* self._chunk_shape = cache and draws the offset off.
GenBegin(cache, off) ==
    /\ GenCanSample(chunk_shape(cache))
    /\ off \in GenOffsets(chunk_shape(cache))
    /\ offset' = off
    /\ points' = GenPoints(off, chunk_shape(cache))
    /\ _chunk_shape' = Some(chunk_shape(cache))

\* The step raises in lines 291-297; the generator object is finished.
GenRaises(cache) ==
    /\ ~GenCanSample(chunk_shape(cache))
    /\ _chunk_shape' = Some(chunk_shape(cache))
    /\ g' = [g EXCEPT !.alive = FALSE]
    /\ UNCHANGED <<offset, points>>

\* confirm past its checks, lines 344-379: the chunk comes from self.tmp,
\* or next(self.g) raises and the handler ends there, or next(self.g)
\* returns a fresh chunk.
ConfirmBody ==
    LET saving == "From CSV" \in viewer_layers             \* line 345
        backup1 == _prepare_backup(_chunk_shape)           \* line 344
        layers1 == IF saving THEN viewer_layers \ WidgetLayerNames ELSE viewer_layers
        co1 == IF saving THEN None ELSE co_layer           \* lines 350-354
        useTmp == UsePrefetched(backup1)                   \* line 357
        cache3 == IF tmp # None THEN Some(SpinValues) ELSE None
        cs == chunk_shape(cache3)
        chosen == [taken |-> TRUE, tmpAvail |-> tmp # None, usedTmp |-> useTmp,
                   cfg |-> Config, tmpCfg |-> h_tmpCfg, shown |-> None]
    IN /\ Len(prefetch) < MaxPrefetch
       /\ saving => h_saveCalls < MaxSaveCalls
       /\ h_confirms < MaxConfirms
       /\ h_confirms' = h_confirms + 1
       /\ backup' = backup1
       /\ h_backupShown' = IF points_layer # None THEN img_layer ELSE h_backupShown
       /\ saves' = IF saving THEN Append(saves, [h_shown |-> img_layer]) ELSE saves
       /\ h_saveCalls' = IF saving THEN h_saveCalls + 1 ELSE h_saveCalls
       /\ h_added' = IF saving THEN h_added \o Translate(Val(backup1)) ELSE h_added
       /\ UNCHANGED <<data, shape, no_channels, csvfile, csv_points, channel,
                      channel_coloc, chunk_spins, pointsFile, bboxFile,
                      h_tmpCfg, h_loaded, h_bbox0, h_drawn, h_loads, h_edits>>
       /\ \/ /\ useTmp
             /\ _chunk_shape' = cache3
             /\ Display(Val(tmp), co1, layers1)
             /\ Did("confirm", "", NoStep, [chosen EXCEPT !.shown = Val(tmp).chunk],
                    NoSave, NoBbox)
             /\ UNCHANGED <<g, offset, points>>
          \/ /\ ~useTmp
             /\ NextRefused
             /\ _chunk_shape' = cache3
             /\ co_layer' = co1
             /\ viewer_layers' = layers1
             /\ Did("confirm", NextRefusal, NoStep, chosen, NoSave, NoBbox)
             /\ UNCHANGED <<g, offset, points, tmp, img_layer, csv_layer, points_layer,
                            prefetch>>
          \/ /\ ~useTmp
             /\ ~NextRefused
             /\ GenRaises(cache3)
             /\ co_layer' = co1
             /\ viewer_layers' = layers1
             /\ Did("confirm", RandIntError, StepRecord(cs, FALSE, <<0, 0, 0>>), chosen,
                    NoSave, NoBbox)
             /\ UNCHANGED <<tmp, img_layer, csv_layer, points_layer, prefetch>>
          \/ /\ ~useTmp
             /\ ~NextRefused
             /\ \E off \in GenOffsets(cs) :
                   LET y == GenYield(g, GenLocals(off, cs), GenPoints(off, cs))
                   IN /\ GenBegin(cache3, off)
                      /\ Display(y, co1, layers1)
                      /\ Did("confirm", "", StepRecord(cs, TRUE, off),
                             [chosen EXCEPT !.shown = y.chunk], NoSave, NoBbox)
             /\ UNCHANGED g

\* confirm, run by the button and by Alt-0.
confirm ==
    IF ~ConfirmReady
    THEN \* show_warning(...) and return
         /\ Did("warning", "", NoStep, NoConfirm, NoSave, NoBbox)
         /\ UNCHANGED <<widgetVars, historyVars>>
    ELSE ConfirmBody

-----------------------------------------------------------------------------
(* _prepare_next_batch: self.tmp = next(self.g), on a worker thread. *)

Remove(ws, i) == SubSeq(ws, 1, i - 1) \o SubSeq(ws, i + 1, Len(ws))

\* The worker calls next(self.g): lines 291-305 of the step, or the call
\* raises and the worker ends.
PrefetchBegin(i) ==
    /\ prefetch[i].pc = "start"
    /\ UNCHANGED <<data, shape, no_channels, csvfile, csv_points, channel,
                   channel_coloc, chunk_spins, tmp, backup, img_layer, co_layer,
                   csv_layer, points_layer, viewer_layers, pointsFile, bboxFile,
                   saves, historyVars>>
    /\ \/ /\ NextRefused
          /\ prefetch' = Remove(prefetch, i)
          /\ Did("other", NextRefusal, NoStep, NoConfirm, NoSave, NoBbox)
          /\ UNCHANGED <<g, offset, points, _chunk_shape>>
       \/ /\ ~NextRefused
          /\ GenRaises(_chunk_shape)
          /\ prefetch' = Remove(prefetch, i)
          /\ Did("other", RandIntError,
                 StepRecord(chunk_shape(_chunk_shape), FALSE, <<0, 0, 0>>),
                 NoConfirm, NoSave, NoBbox)
       \/ /\ ~NextRefused
          /\ \E off \in GenOffsets(chunk_shape(_chunk_shape)) :
                /\ GenBegin(_chunk_shape, off)
                /\ prefetch' = [prefetch EXCEPT ![i] =
                      [pc |-> "gen", own |-> TRUE, gen |-> g,
                       loc |-> GenLocals(off, chunk_shape(_chunk_shape)),
                       h_cfg |-> <<g.channel, g.channel_coloc, chunk_shape(_chunk_shape)>>]]
                /\ Did("other", "", StepRecord(chunk_shape(_chunk_shape), TRUE, off),
                       NoConfirm, NoSave, NoBbox)
          /\ UNCHANGED g

\* The step yields (lines 306-318) and the worker stores it in self.tmp.
PrefetchEnd(i) ==
    /\ prefetch[i].pc = "gen"
    /\ tmp' = Some(GenYield(prefetch[i].gen, prefetch[i].loc, points))
    /\ h_tmpCfg' = prefetch[i].h_cfg
    /\ prefetch' = Remove(prefetch, i)
    /\ DidOther
    /\ UNCHANGED <<data, shape, no_channels, csvfile, csv_points, channel,
                   channel_coloc, chunk_spins, g, offset, points, _chunk_shape, backup,
                   img_layer, co_layer, csv_layer, points_layer, viewer_layers,
                   pointsFile, bboxFile, saves,
                   h_backupShown, h_loaded, h_added, h_bbox0, h_saveCalls, h_drawn,
                   h_loads, h_edits, h_confirms>>

-----------------------------------------------------------------------------
(* save_and_update, on a worker thread. *)

\* Lines 398-402: the index after the one the file's last line starts with.
NextIndex(lines) ==
    LET recent_chunk == lines[Len(lines)]
        head == SubSeq(recent_chunk, 1, FirstPos(recent_chunk, ",") - 1)
    IN IF "," \in Range(recent_chunk) /\ IsIntText(head) THEN IntOf(head) + 1 ELSE 0

\* self.offset + BOX_PATHS * self._chunk_shape
Vertices(off, cs) ==
    [k \in 1..Len(BOX_PATHS) |-> <<off[1] + BOX_PATHS[k][1] * cs[1],
                                   off[2] + BOX_PATHS[k][2] * cs[2],
                                   off[3] + BOX_PATHS[k][3] * cs[3]>>]

\* The line csv.writer writes for vertex k (counted from 1) of a path.
BboxLine(idx, k, v) == Join(<<Str(idx), PathText, Str(k - 1), Str(v[1]), Str(v[2]), Str(v[3])>>, ",")

\* _generate_bbox_export(idx), as the lines csv.writer writes.
_generate_bbox_export(idx) ==
    LET vertices == Vertices(offset, Val(_chunk_shape))
    IN [k \in 1..Len(vertices) |-> BboxLine(idx, k, vertices[k])]

\* save_and_update (lines 383-404): the points of self.backup join
\* self.csv_points and the point CSV is written anew; then the bounding box
\* is appended to the bounding-box CSV, or _generate_bbox_export raises and
\* nothing is.
save_and_update(i) ==
    LET new == Translate(Val(backup))
        all == Val(csv_points) \o new
        saved == [taken |-> TRUE,
                  pts |-> [k \in 1..Len(new) |->
                             [local |-> Val(backup).points_layer_data[k],
                              abs |-> new[k],
                              shown |-> Val(h_backupShown)]]]
    IN /\ csv_points' = Some(all)
       /\ pointsFile' = Some(WriteRows(PointRows(all), "\r"))
       /\ IF _chunk_shape = None
          THEN /\ Did("other", NoneShape, NoStep, NoConfirm, saved,
                      [taken |-> TRUE, written |-> FALSE, vertices |-> <<>>,
                       shown |-> saves[i].h_shown])
               /\ UNCHANGED bboxFile
          ELSE /\ bboxFile' = Some(Val(bboxFile)
                                   \o _generate_bbox_export(NextIndex(Val(bboxFile))))
               /\ Did("other", "", NoStep, NoConfirm, saved,
                      [taken |-> TRUE, written |-> TRUE,
                       vertices |-> Vertices(offset, Val(_chunk_shape)),
                       shown |-> saves[i].h_shown])
       /\ saves' = Remove(saves, i)
       /\ UNCHANGED <<data, shape, no_channels, csvfile, channel, channel_coloc,
                      chunk_spins, g, offset, points, _chunk_shape, tmp, backup,
                      img_layer, co_layer, csv_layer, points_layer, viewer_layers,
                      prefetch, historyVars>>

-----------------------------------------------------------------------------
(* The widget with its workers. *)

Next ==
    \/ \E name \in DataFiles : load_data(name)
    \/ load_csv(PointsCsv)
    \/ \E v \in 0..channel.max : SetChannel(v)
    \/ \E v \in 0..channel_coloc.max : SetChannelColoc(v)
    \/ \E s \in ShapeChoices : SetChunkShape(s)
    \/ \E p \in DrawChoices : AddPoint(p)
    \/ confirm
    \/ \E i \in 1..Len(prefetch) : PrefetchBegin(i)
    \/ \E i \in 1..Len(prefetch) : PrefetchEnd(i)
    \/ \E i \in 1..Len(saves) : save_and_update(i)

Spec == Init /\ [][Next]_vars

-----------------------------------------------------------------------------
(* The claims of the specification, stated on the model. *)

\* C1: every point a save appends to the point set is the drawn point,
\* rounded, plus the offset at which the chunk it was drawn in (the chunk on
\* display when confirm took the backup) was sliced from the dataset.
C1_PointsUseDisplayedOffset ==
    h_lastSave.taken =>
        \A k \in 1..Len(h_lastSave.pts) :
            LET r == h_lastSave.pts[k]
            IN \A i \in 1..3 : r.abs[i] = NpRound(r.local[i]) + 2 * r.shown.lo[i]

\* C2: a confirm past its checks displays the chunk of self.tmp if and only
\* if a prefetched chunk is available and the configuration (channel,
\* colocalisation channel, chunk shape) is the one that prefetch began with.
C2_PrefetchUsedIffConfigUnchanged ==
    h_confirm.taken =>
        (h_confirm.usedTmp <=> (h_confirm.tmpAvail /\ h_confirm.cfg = h_confirm.tmpCfg))

\* C3: for a configured chunk shape s with 0 < s[i] < extent[i] on every
\* axis, a step of the sampler succeeds and its offset o has 0 <= o[i] and
\* o[i] + s[i] <= extent[i] on every axis.
C3_ChunkInsideDataset ==
    (/\ h_lastStep.taken
     /\ \A i \in 1..3 : 0 < h_lastStep.cs[i] /\ h_lastStep.cs[i] < h_lastStep.dims[i])
    => /\ h_lastStep.ok
       /\ \A i \in 1..3 : /\ 0 <= h_lastStep.off[i]
                          /\ h_lastStep.off[i] + h_lastStep.cs[i] <= h_lastStep.dims[i]

\* C4: the bounding box a save records has the 17 vertices
\* offset + BOX_PATHS[k] * shape, with the offset and the shape of the chunk
\* that was on display when confirm was triggered.
C4_BboxDescribesDisplayedChunk ==
    (h_lastBbox.taken /\ h_lastBbox.written) =>
        h_lastBbox.vertices
            = Vertices(Val(h_lastBbox.shown).lo, Val(h_lastBbox.shown).h_cs)

\* C5: in every step of the sampler, a point of the full point set is in
\* the step's subset if and only if offset[i] < p[i] < offset[i] + shape[i]
\* on all three axes, shape being the configured chunk shape.
C5_SubsetIsOpenBox ==
    (h_lastStep.taken /\ h_lastStep.ok) =>
        LET Inside(p) == \A i \in 1..3 :
                            /\ 2 * h_lastStep.off[i] < p[i]
                            /\ p[i] < 2 * (h_lastStep.off[i] + h_lastStep.cs[i])
        IN h_lastStep.subset = SelectSeq(h_lastStep.all, Inside)

\* C6: once every save has completed, the point CSV holds the in-memory
\* point list, which is the loaded points followed by the added points in
\* the order they were confirmed, one row per point with index 0..N-1, and
\* _load_csv of the file returns that list.
C6_CsvIsPointList ==
    (saves = <<>> /\ csv_points # None /\ h_saveCalls > 0) =>
        LET list == h_loaded \o h_added
        IN /\ Val(csv_points) = list
           /\ CsvRows(Val(pointsFile)) = PointRows(list)
           /\ _load_csv(pointsFile) = list

\* C7: a confirm with no dataset, no point CSV or a chunk-shape spinner at 0
\* only warns: the widget's attributes, the layers, both files and the
\* background tasks are as they were.
C7_WarningLeavesStateAlone ==
    [][(/\ \/ data = None
           \/ csv_points = None
           \/ \E e \in 1..3 : chunk_spins[e].value = 0
        /\ h_event'.kind \in {"confirm", "warning"})
       => (h_event'.kind = "warning" /\ UNCHANGED widgetVars)]_vars

\* C7 witness: a confirm has just warned with the dataset and the point CSV
\* loaded and a chunk-shape spinner at 0.
C7_Witness ==
    /\ h_event.kind = "warning"
    /\ data # None /\ csv_points # None
    /\ \E e \in 1..3 : chunk_spins[e].value = 0

\* C8: a save appends exactly 17 lines to the bounding-box CSV and changes
\* none before them; the 17 carry vertex-index 0..16 and one index, the
\* leading integer of the previous last line plus one, or 0 when that line
\* has none.
C8_SaveAppends17Rows ==
    [][h_lastBbox'.taken =>
          LET old == Val(bboxFile)
              new == Val(bboxFile')
              lead == Split(old[Len(old)], ",")[1]
              idx == IF IsIntText(lead) THEN IntOf(lead) + 1 ELSE 0
          IN /\ Len(new) = Len(old) + Len(BOX_PATHS)
             /\ SubSeq(new, 1, Len(old)) = old
             /\ \A k \in 1..Len(BOX_PATHS) :
                   LET cells == Split(new[Len(old) + k], ",")
                   IN cells[1] = Str(idx) /\ cells[3] = Str(k - 1)]_vars

\* C9: load_data takes the selected file as the dataset if and only if its
\* name ends with an extension of VALID_IMAGE_FORMATS; any other selection
\* leaves data, shape, no_channels and the spinner maxima as they were.
C9_LoadsIffRecognizedExtension ==
    [][h_event'.kind = "load_data" =>
          LET name == h_event'.file
              EndsWith(suffix) ==
                  /\ Len(name) >= Len(suffix)
                  /\ SubSeq(name, Len(name) - Len(suffix) + 1, Len(name)) = suffix
              recognized == \E k \in 1..Len(VALID_IMAGE_FORMATS) :
                               EndsWith(VALID_IMAGE_FORMATS[k])
          IN IF recognized
             THEN data' = Some(name) /\ shape' = Some(FileShape(name))
             ELSE /\ UNCHANGED <<data, shape, no_channels>>
                  /\ channel'.max = channel.max
                  /\ channel_coloc'.max = channel_coloc.max
                  /\ \A e \in 1..3 : chunk_spins'[e].max = chunk_spins[e].max]_vars

\* C10: at most one step of the sampler is in progress at a time: no
\* next(self.g) is called while a step is under way, by confirm or by a
\* second prefetch.
C10_OneSamplerStepAtATime ==
    /\ Cardinality({i \in 1..Len(prefetch) : prefetch[i].pc = "gen"}) <= 1
    /\ h_raised # AlreadyExecuting
    /\ ~(/\ h_event.kind = "confirm"
         /\ h_lastStep.taken
         /\ \E i \in 1..Len(prefetch) : prefetch[i].pc = "gen")

====
